---- MODULE Spec2Model ----
(***************************************************************************)
(* Model of src/main.go: one synchronous pass that reads the environment,  *)
(* opens a vSphere session, lists the virtual machines through a container *)
(* view, resolves the counter "cpu.usagemhz.average" and queries it once   *)
(* per virtual machine, printing the integer series that carry that        *)
(* counter.  The remote endpoint and the environment are the inputs; every *)
(* remote call is one step, and a call's result is drawn from the small    *)
(* sets below.                                                             *)
(***************************************************************************)
EXTENDS Integers, Sequences, FiniteSets

VARIABLES
    pc,         \* position of main: the next step to run
    env,        \* the three environment variables (os.Getenv)
    view,       \* the container view: "none", "open", "destroyed"
    vms,        \* the inventory returned by v.Retrieve
    counterInfo, \* the catalog returned by CounterInfoByName (empty before)
    counter,    \* counter.Key of the resolved metric (0 before resolution)
    idx,        \* number of vms the range loop has gone through
    resps,      \* what pm.Query returned for each vm so far
    calls,      \* the remote calls made so far, in order, and how each ended
    out,        \* the lines printed to standard output
    exitCode,   \* the process exit status, once pc is "done" or "exited"
    cancelled   \* the run context has been cancelled

vars == <<pc, env, view, vms, counterInfo, counter, idx, resps, calls, out, exitCode, cancelled>>

----------------------------------------------------------------------------
(* Bounds of the model *)

MaxVMs == 2          \* longest inventory of the pipeline specification
MaxRespSize == 2     \* envelopes and series in a response, pipeline specification
MaxExtractSize == 3  \* envelopes and series in a response, extraction specification

(* Program constants *)

MetricName == "cpu.usagemhz.average"
IntervalId == 20
MaxSample == 1

----------------------------------------------------------------------------
(* Input domains *)

Hosts == {"", "vcsa.local", "bad host"}
Credentials == {"", "secret"}
VMNames == {"web-01", "db-01"}
CounterIds == {6, 7}
CatalogNames == {MetricName, "mem.usage.average"}
ClientErrors == {"authentication", "connection"}
SampleValues == {<<350>>}

SeqsUpTo(S, n) == UNION {[1..k -> S] : k \in 0..n}

Inventories == SeqsUpTo(VMNames, MaxVMs)
TwoVMs == [{1, 2} -> VMNames]

\* performance.Manager.CounterInfoByName: a map from counter name to its key;
\* two counters never share a key
Catalogs ==
    {c \in UNION {[D -> CounterIds] : D \in SUBSET CatalogNames} :
        \A a, b \in DOMAIN c : c[a] = c[b] => a = b}

\* types.BasePerfMetricSeries: a PerfMetricIntSeries or some other series kind
IntSeries == [int : {TRUE}, counterId : CounterIds, value : SampleValues]
OtherSeries == [int : {FALSE}, counterId : CounterIds, value : {<<>>}]
Series == IntSeries \cup OtherSeries

\* types.BasePerfEntityMetricBase: a PerfEntityMetric with k - 1 series, or (k = 1)
\* some other envelope
MetricsOfSize(k) ==
    [entityMetric : {TRUE}, value : [1..(k - 1) -> Series]]
        \cup (IF k = 1 THEN [entityMetric : {FALSE}, value : {<<>>}] ELSE {})

RECURSIVE MetricLists(_)
\* the lists of envelopes that hold at most n envelopes and series in all
MetricLists(n) ==
    {<<>>} \cup UNION {{<<m>> \o rest : m \in MetricsOfSize(k), rest \in MetricLists(n - k)} :
                          k \in 1..n}

\* what pm.Query can return: an error, or a list of envelopes
QueryError == [ok |-> FALSE, metrics |-> <<>>]
QueryResults(n) == {[ok |-> TRUE, metrics |-> ms] : ms \in MetricLists(n)}
\* one query spec is answered by at most one envelope
Responses == {QueryError} \cup {r \in QueryResults(MaxRespSize) : Len(r.metrics) <= 1}
\* any list of envelopes
WideResponses == {QueryError} \cup QueryResults(MaxExtractSize)

----------------------------------------------------------------------------
(* Output lines and remote calls *)

Line(kind, arg, val) == [kind |-> kind, arg |-> arg, val |-> val]

\* lines 110-115: the query built for one vm
PerfQuerySpec(vm, key) ==
    [entity |-> vm, counterId |-> key, intervalId |-> IntervalId, maxSample |-> MaxSample]

NoQuery == [entity |-> "", counterId |-> 0, intervalId |-> 0, maxSample |-> 0]

\* one remote call: its name, the error it returned ("" for none), its query if any
Call(op, err) == [op |-> op, err |-> err, query |-> NoQuery]
QueryCall(q, err) == [op |-> "Query", err |-> err, query |-> q]

\* line 49: fmt.Sprintf("https://%s/sdk", vc)
formatVCURL(vc) == <<"https://", vc, "/sdk">>

\* line 53: url.Parse rejects a host with an invalid character
UrlParses(u) == u[2] # "bad host"

----------------------------------------------------------------------------
(* Extraction, lines 123-141 *)

\* SeriesLines without the counter id test of line 137
SeriesLines_NoIdTest(name, s, key) ==
    IF ~s.int THEN <<Line("seriesTypeError", name, <<>>)>>
    ELSE <<Line("value", name, s.value)>>

\* lines 131-139: one value series of an entity metric
SeriesLines(name, s, key) ==
    IF ~s.int THEN <<Line("seriesTypeError", name, <<>>)>>
    ELSE IF s.counterId = key THEN <<Line("value", name, s.value)>>
    ELSE <<>>

RECURSIVE ValueLines_Break(_, _, _)
\* ValueLines leaving the range at the first series that is not an integer series
ValueLines_Break(name, ss, key) ==
    IF ss = <<>> THEN <<>>
    ELSE IF ~Head(ss).int THEN <<Line("seriesTypeError", name, <<>>)>>
    ELSE SeriesLines(name, Head(ss), key) \o ValueLines_Break(name, Tail(ss), key)

RECURSIVE ValueLines(_, _, _)
\* lines 130-140: the range over metric.Value
ValueLines(name, ss, key) ==
    IF ss = <<>> THEN <<>>
    ELSE SeriesLines(name, Head(ss), key) \o ValueLines(name, Tail(ss), key)

\* lines 124-140: one envelope of the response
MetricLines(name, m, key) ==
    IF ~m.entityMetric THEN <<Line("metricTypeError", name, <<>>)>>
    ELSE ValueLines(name, m.value, key)

RECURSIVE ResponseLines(_, _, _)
\* lines 123-141: the range over metrics
ResponseLines(name, ms, key) ==
    IF ms = <<>> THEN <<>>
    ELSE MetricLines(name, Head(ms), key) \o ResponseLines(name, Tail(ms), key)

----------------------------------------------------------------------------
(* The run *)

Init ==
    /\ pc = "readEnvVars"
    /\ env \in [vc : Hosts, user : Credentials, pass : Credentials]
    /\ view = "none"
    /\ vms = <<>>
    /\ counterInfo = <<>>
    /\ counter = 0
    /\ idx = 0
    /\ resps = <<>>
    /\ calls = <<>>
    /\ out = <<>>
    /\ exitCode = 0
    /\ cancelled = FALSE

\* os.Exit(1) after one diagnostic: deferred calls do not run
Fatal(line) ==
    /\ out' = Append(out, line)
    /\ pc' = "exited"
    /\ exitCode' = 1

\* lines 35-46
readEnvVars ==
    /\ pc = "readEnvVars"
    /\ IF env.vc = "" \/ env.user = "" \/ env.pass = ""
       THEN Fatal(Line("envMissing", "", <<>>))
       ELSE /\ pc' = "createVSphereClient"
            /\ UNCHANGED <<out, exitCode>>
    /\ UNCHANGED <<env, view, vms, counterInfo, counter, idx, resps, calls, cancelled>>

\* lines 52-57: the URL does not parse, no remote call is made
createVSphereClientBadURL ==
    /\ pc = "createVSphereClient"
    /\ ~UrlParses(formatVCURL(env.vc))
    /\ Fatal(Line("urlParseError", "", <<>>))
    /\ UNCHANGED <<env, view, vms, counterInfo, counter, idx, resps, calls, cancelled>>

\* lines 59-65: govmomi.NewClient fails
createVSphereClientFail ==
    /\ pc = "createVSphereClient"
    /\ UrlParses(formatVCURL(env.vc))
    /\ \E e \in ClientErrors :
          /\ calls' = Append(calls, Call("NewClient", e))
          /\ Fatal(Line("clientError", e, <<>>))
    /\ UNCHANGED <<env, view, vms, counterInfo, counter, idx, resps, cancelled>>

\* lines 59-67: govmomi.NewClient succeeds
createVSphereClientOk ==
    /\ pc = "createVSphereClient"
    /\ UrlParses(formatVCURL(env.vc))
    /\ calls' = Append(calls, Call("NewClient", ""))
    /\ pc' = "createContainerView"
    /\ UNCHANGED <<env, view, vms, counterInfo, counter, idx, resps, out, exitCode, cancelled>>

\* lines 73-77: CreateContainerView fails
createContainerViewFail ==
    /\ pc = "createContainerView"
    /\ calls' = Append(calls, Call("CreateContainerView", "error"))
    /\ Fatal(Line("viewError", "", <<>>))
    /\ UNCHANGED <<env, view, vms, counterInfo, counter, idx, resps, cancelled>>

\* lines 73-78: CreateContainerView succeeds, v.Destroy is deferred
createContainerViewOk ==
    /\ pc = "createContainerView"
    /\ calls' = Append(calls, Call("CreateContainerView", ""))
    /\ view' = "open"
    /\ pc' = "retrieve"
    /\ UNCHANGED <<env, vms, counterInfo, counter, idx, resps, out, exitCode, cancelled>>

\* retrieveFail without the os.Exit of line 84
retrieveFail_NoExit ==
    /\ pc = "retrieve"
    /\ calls' = Append(calls, Call("Retrieve", "error"))
    /\ out' = Append(out, Line("retrieveError", "", <<>>))
    /\ pc' = "destroy"
    /\ UNCHANGED <<env, view, vms, counterInfo, counter, idx, resps, exitCode, cancelled>>

\* lines 81-85: v.Retrieve fails and the process exits
retrieveFail ==
    /\ pc = "retrieve"
    /\ calls' = Append(calls, Call("Retrieve", "error"))
    /\ Fatal(Line("retrieveError", "", <<>>))
    /\ UNCHANGED <<env, view, vms, counterInfo, counter, idx, resps, cancelled>>

\* lines 80-87: v.Retrieve fills vms
retrieveOk(inventories) ==
    /\ pc = "retrieve"
    /\ calls' = Append(calls, Call("Retrieve", ""))
    /\ \E inv \in inventories : vms' = inv
    /\ pc' = "destroy"
    /\ UNCHANGED <<env, view, counterInfo, counter, idx, resps, out, exitCode, cancelled>>

\* line 78 at line 87: the deferred v.Destroy runs as retrieveVMs returns
destroyView ==
    /\ pc = "destroy"
    /\ calls' = Append(calls, Call("Destroy", ""))
    /\ view' = "destroyed"
    /\ pc' = "counterInfo"
    /\ UNCHANGED <<env, vms, counterInfo, counter, idx, resps, out, exitCode, cancelled>>

\* line 78 at line 87: the deferred v.Destroy fails; the defer statement drops
\* its error, the view stays open and retrieveVMs returns all the same
destroyViewFail ==
    /\ pc = "destroy"
    /\ calls' = Append(calls, Call("Destroy", "error"))
    /\ pc' = "counterInfo"
    /\ UNCHANGED <<env, view, vms, counterInfo, counter, idx, resps, out, exitCode,
                   cancelled>>

\* counterInfoFail with the error of line 98 ignored
counterInfoFail_Ignored ==
    /\ pc = "counterInfo"
    /\ calls' = Append(calls, Call("CounterInfoByName", "error"))
    /\ pc' = "loop"
    /\ UNCHANGED <<env, view, vms, counterInfo, counter, idx, resps, out, exitCode,
                   cancelled>>

\* lines 97-101: CounterInfoByName fails
counterInfoFail ==
    /\ pc = "counterInfo"
    /\ calls' = Append(calls, Call("CounterInfoByName", "error"))
    /\ Fatal(Line("counterInfoError", "", <<>>))
    /\ UNCHANGED <<env, view, vms, counterInfo, counter, idx, resps, cancelled>>

\* counterInfoOk with the ok of line 103 ignored: the zero descriptor is used
counterInfoOk_ZeroDescriptor ==
    /\ pc = "counterInfo"
    /\ calls' = Append(calls, Call("CounterInfoByName", ""))
    /\ \E catalog \in Catalogs :
          /\ counterInfo' = catalog
          /\ counter' = IF MetricName \in DOMAIN catalog THEN catalog[MetricName] ELSE 0
    /\ pc' = "loop"
    /\ UNCHANGED <<env, view, vms, idx, resps, out, exitCode, cancelled>>

\* lines 97-107: the catalog is fetched and MetricName is looked up in it
counterInfoOk ==
    /\ pc = "counterInfo"
    /\ calls' = Append(calls, Call("CounterInfoByName", ""))
    /\ \E catalog \in Catalogs :
          /\ counterInfo' = catalog
          /\ IF MetricName \in DOMAIN catalog
             THEN /\ counter' = catalog[MetricName]
                  /\ pc' = "loop"
                  /\ UNCHANGED <<out, exitCode>>
             ELSE /\ Fatal(Line("metricNotFound", MetricName, <<>>))
                  /\ UNCHANGED counter
    /\ UNCHANGED <<env, view, vms, idx, resps, cancelled>>

\* queryFail with os.Exit(1) in place of the continue of line 120
queryFail_Exit ==
    /\ pc = "loop"
    /\ idx < Len(vms)
    /\ calls' = Append(calls, QueryCall(PerfQuerySpec(vms[idx + 1], counter), "error"))
    /\ resps' = Append(resps, QueryError)
    /\ Fatal(Line("queryError", vms[idx + 1], <<>>))
    /\ idx' = idx + 1
    /\ UNCHANGED <<env, view, vms, counterInfo, counter, cancelled>>

\* queryFail that queries the same vm again
queryFail_Retry ==
    /\ pc = "loop"
    /\ idx < Len(vms)
    /\ calls' = Append(calls, QueryCall(PerfQuerySpec(vms[idx + 1], counter), "error"))
    /\ resps' = Append(resps, QueryError)
    /\ out' = Append(out, Line("queryError", vms[idx + 1], <<>>))
    /\ UNCHANGED <<pc, env, view, vms, counterInfo, counter, idx, exitCode, cancelled>>

\* lines 109-121: pm.Query fails for the next vm; the loop continues
queryFail ==
    /\ pc = "loop"
    /\ idx < Len(vms)
    /\ calls' = Append(calls, QueryCall(PerfQuerySpec(vms[idx + 1], counter), "error"))
    /\ resps' = Append(resps, QueryError)
    /\ out' = Append(out, Line("queryError", vms[idx + 1], <<>>))
    /\ idx' = idx + 1
    /\ UNCHANGED <<pc, env, view, vms, counterInfo, counter, exitCode, cancelled>>

\* queryOk with the catalog fetched again for each vm
queryOk_Refetch(responses) ==
    /\ pc = "loop"
    /\ idx < Len(vms)
    /\ calls' = calls \o <<Call("CounterInfoByName", ""),
                           QueryCall(PerfQuerySpec(vms[idx + 1], counter), "")>>
    /\ \E r \in responses :
          /\ r.ok
          /\ resps' = Append(resps, r)
          /\ out' = out \o ResponseLines(vms[idx + 1], r.metrics, counter)
    /\ idx' = idx + 1
    /\ UNCHANGED <<pc, env, view, vms, counterInfo, counter, exitCode, cancelled>>

\* lines 109-141: pm.Query answers for the next vm and its series are printed
queryOk(responses) ==
    /\ pc = "loop"
    /\ idx < Len(vms)
    /\ calls' = Append(calls, QueryCall(PerfQuerySpec(vms[idx + 1], counter), ""))
    /\ \E r \in responses :
          /\ r.ok
          /\ resps' = Append(resps, r)
          /\ out' = out \o ResponseLines(vms[idx + 1], r.metrics, counter)
    /\ idx' = idx + 1
    /\ UNCHANGED <<pc, env, view, vms, counterInfo, counter, exitCode, cancelled>>

\* lines 142-143, 33, 25: the loop ends, main returns, the deferred cancel runs
mainReturn ==
    /\ pc = "loop"
    /\ idx = Len(vms)
    /\ cancelled' = TRUE
    /\ pc' = "done"
    /\ exitCode' = 0
    /\ UNCHANGED <<env, view, vms, counterInfo, counter, idx, resps, calls, out>>

Setup ==
    \/ readEnvVars
    \/ createVSphereClientBadURL
    \/ createVSphereClientFail
    \/ createVSphereClientOk
    \/ createContainerViewFail
    \/ createContainerViewOk
    \/ retrieveFail

Resolve ==
    \/ destroyView
    \/ destroyViewFail
    \/ counterInfoFail
    \/ counterInfoOk

Next ==
    \/ Setup
    \/ retrieveOk(Inventories)
    \/ Resolve
    \/ queryFail
    \/ queryOk(Responses)
    \/ mainReturn

Spec == Init /\ [][Next]_vars

\* the same run over the two-machine inventories and larger query responses
NextExtract ==
    \/ Setup
    \/ retrieveOk(TwoVMs)
    \/ Resolve
    \/ queryFail
    \/ queryOk(WideResponses)
    \/ mainReturn

SpecExtract == Init /\ [][NextExtract]_vars

----------------------------------------------------------------------------
(* Vocabulary of the properties *)

Terminated == pc \in {"done", "exited"}
InLoop == pc \in {"loop", "done"}

CallsOf(op) == {i \in 1..Len(calls) : calls[i].op = op}
Failed(op) == \E i \in CallsOf(op) : calls[i].err # ""
Queries == SelectSeq(calls, LAMBDA c : c.op = "Query")
LinesOf(kind) == SelectSeq(out, LAMBDA l : l.kind = kind)
Printed(kind) == \E i \in 1..Len(out) : out[i].kind = kind

RECURSIVE AllSeries(_)
\* the value series held by the entity metrics of a response, in order
AllSeries(ms) ==
    IF ms = <<>> THEN <<>>
    ELSE (IF Head(ms).entityMetric THEN Head(ms).value ELSE <<>>) \o AllSeries(Tail(ms))

OtherEnvelopes(ms) == SelectSeq(ms, LAMBDA m : ~m.entityMetric)
IntMatching(ms) == SelectSeq(AllSeries(ms), LAMBDA s : s.int /\ s.counterId = counter)
AnyMatching(ms) == SelectSeq(AllSeries(ms), LAMBDA s : s.counterId = counter)
NonInt(ms) == SelectSeq(AllSeries(ms), LAMBDA s : ~s.int)

\* the five fatal kinds, read from the inputs and the results of the remote calls
ConfigurationError ==
    \/ env.vc = "" \/ env.user = "" \/ env.pass = ""
    \/ env.vc = "bad host"
AuthenticationError == \E i \in CallsOf("NewClient") : calls[i].err = "authentication"
ConnectionError == \E i \in CallsOf("NewClient") : calls[i].err = "connection"
InventoryError == Failed("CreateContainerView") \/ Failed("Retrieve")
CatalogFetched == \E i \in CallsOf("CounterInfoByName") : calls[i].err = ""
UnknownMetric == CatalogFetched /\ MetricName \notin DOMAIN counterInfo
CatalogFetchError == Failed("CounterInfoByName")
FiveFatalKinds ==
    ConfigurationError \/ AuthenticationError \/ ConnectionError \/ InventoryError
        \/ UnknownMetric

----------------------------------------------------------------------------
(* C1 *)

\* the lines a vm's turn of the loop leaves, given what its own query returned
C1_Segment(i) ==
    IF resps[i].ok
    THEN ResponseLines(vms[i], resps[i].metrics, counter)
    ELSE <<Line("queryError", vms[i], <<>>)>>

C1_Expected ==
    LET f[i \in 0..idx] == IF i = 0 THEN <<>> ELSE f[i - 1] \o C1_Segment(i)
    IN f[idx]

\* C1: per-entity isolation.  A failed query leaves exactly one diagnostic
\* naming its vm and no value line for it; every other vm, before or after,
\* is queried and prints the lines its own response determines; the run never
\* aborts once it queries, and ends with status 0 after the last vm.
C1_PerEntityIsolation ==
    /\ resps # <<>> => InLoop
    /\ InLoop =>
          /\ Len(resps) = idx
          /\ out = C1_Expected
          /\ Len(LinesOf("queryError")) = Cardinality({i \in 1..idx : ~resps[i].ok})
    /\ pc = "done" => idx = Len(vms) /\ exitCode = 0

\* a failed query for the first vm, a value printed for the second, normal end
C1_Witness ==
    /\ pc = "done"
    /\ Len(vms) = 2
    /\ ~resps[1].ok
    /\ resps[2].ok
    /\ out = <<Line("queryError", vms[1], <<>>), Line("value", vms[2], <<350>>)>>

----------------------------------------------------------------------------
(* C2 *)

\* C2: fatal short-circuit.  After container-view creation or retrieval has
\* failed, the run has exited with status 1 and one diagnostic, and neither
\* CounterInfoByName nor Query is among the calls made.
C2_FatalShortCircuit ==
    InventoryError =>
        /\ pc = "exited"
        /\ exitCode = 1
        /\ Len(out) = 1
        /\ out[1].kind \in {"viewError", "retrieveError"}
        /\ CallsOf("CounterInfoByName") = {}
        /\ CallsOf("Query") = {}

C2_Witness == pc = "exited" /\ Failed("Retrieve") /\ view = "open"

----------------------------------------------------------------------------
(* C3 *)

\* C3: unknown metric.  A fetched catalog without MetricName ends the run with
\* status 1 and the diagnostic naming the metric, with no query made, whatever
\* the inventory; and every query made carries the key the catalog gives to
\* MetricName.
C3_UnknownMetricFatal ==
    /\ UnknownMetric =>
          /\ pc = "exited"
          /\ exitCode = 1
          /\ out = <<Line("metricNotFound", MetricName, <<>>)>>
          /\ CallsOf("Query") = {}
    /\ \A i \in CallsOf("Query") :
          /\ MetricName \in DOMAIN counterInfo
          /\ calls[i].query.counterId = counterInfo[MetricName]

C3_Witness ==
    /\ pc = "exited"
    /\ UnknownMetric
    /\ DOMAIN counterInfo # {}
    /\ vms # <<>>

\* the same with an empty inventory
C3_WitnessEmptyInventory == pc = "exited" /\ UnknownMetric /\ vms = <<>>

----------------------------------------------------------------------------
(* C4 *)

\* C4: resource release.  Once the container view has been created, v.Destroy
\* has been called whenever control is out of retrieveVMs, by return or by exit.
C4_ViewReleased ==
    (view # "none" /\ pc \notin {"retrieve", "destroy"}) => CallsOf("Destroy") # {}

----------------------------------------------------------------------------
(* C5 *)

C5_ExpectedValues ==
    LET lines(i) ==
            LET m == IntMatching(resps[i].metrics)
            IN [k \in 1..Len(m) |-> Line("value", vms[i], m[k].value)]
        f[i \in 0..idx] == IF i = 0 THEN <<>> ELSE f[i - 1] \o lines(i)
    IN f[idx]

C5_Count(sel(_)) ==
    LET f[i \in 0..idx] == IF i = 0 THEN 0 ELSE f[i - 1] + Len(sel(resps[i].metrics))
    IN f[idx]

\* C5 as stated: the value lines printed are as many as the series, of any
\* kind, whose counter id is the requested one.
C5_Original == InLoop => Len(LinesOf("value")) = C5_Count(AnyMatching)

\* C5 as amended: the value lines printed are, vm by vm and in order, the
\* values of the integer series whose counter id is the requested one; an
\* integer series with another counter id leaves no line at all, and the only
\* other lines are one diagnostic per non-integer series or envelope.
C5_ExtractionCorrect ==
    InLoop =>
        /\ LinesOf("value") = C5_ExpectedValues
        /\ Len(out) = Len(LinesOf("value")) + Len(LinesOf("queryError"))
                        + C5_Count(NonInt) + C5_Count(OtherEnvelopes)

\* a response with two integer series, one of them with the requested id
C5_Witness ==
    /\ pc = "done"
    /\ resps[1].ok
    /\ Len(AllSeries(resps[1].metrics)) = 2
    /\ Len(IntMatching(resps[1].metrics)) = 1
    /\ Len(NonInt(resps[1].metrics)) = 0
    /\ \E i \in 1..Len(out) : out[i] = Line("value", vms[1], <<350>>)

----------------------------------------------------------------------------
(* C6 *)

\* C6: a non-integer series, whatever its counter id, and a non-entity
\* envelope leave one diagnostic each and never a value line; the series and
\* envelopes after them are still processed, the run never exits because of
\* them, and it goes on to the remaining vms and ends with status 0.
C6_NonIntegerSkip ==
    /\ resps # <<>> => InLoop
    /\ InLoop =>
          /\ Len(LinesOf("seriesTypeError")) = C5_Count(NonInt)
          /\ Len(LinesOf("metricTypeError")) = C5_Count(OtherEnvelopes)
          /\ Len(LinesOf("value")) = C5_Count(IntMatching)
    /\ pc = "done" => Len(resps) = Len(vms) /\ exitCode = 0

\* first vm: a non-integer series with the requested id, then an integer one
\* that is printed; the second vm is then queried and the run ends normally
C6_Witness ==
    /\ pc = "done"
    /\ Len(resps) = 2
    /\ resps[1].ok
    /\ Len(resps[1].metrics) = 1
    /\ Len(resps[1].metrics[1].value) = 2
    /\ ~resps[1].metrics[1].value[1].int
    /\ resps[1].metrics[1].value[1].counterId = counter
    /\ resps[1].metrics[1].value[2].int
    /\ resps[1].metrics[1].value[2].counterId = counter
    /\ SubSeq(out, 1, 2) = <<Line("seriesTypeError", vms[1], <<>>),
                             Line("value", vms[1], <<350>>)>>

----------------------------------------------------------------------------
(* C8 *)

\* C8 as stated: the run ends with a non-zero status exactly when one of the
\* five fatal kinds has occurred.
C8_Original == Terminated => (exitCode # 0 <=> FiveFatalKinds)

\* C8 as amended: the run ends with a non-zero status exactly when one of the
\* five fatal kinds or a failure of the catalog fetch has occurred; a failed
\* query or a type mismatch leaves the run in the loop, and a run that ends
\* otherwise has queried every vm and has status 0.
C8_FatalKinds ==
    /\ Terminated => (exitCode # 0 <=> (FiveFatalKinds \/ CatalogFetchError))
    /\ (Failed("Query") \/ Printed("metricTypeError") \/ Printed("seriesTypeError"))
          => InLoop
    /\ pc = "done" => Len(Queries) = Len(vms)

\* a failed query and a type mismatch, and the run ends with status 0
C8_Witness ==
    /\ pc = "done"
    /\ exitCode = 0
    /\ Failed("Query")
    /\ Printed("metricTypeError")

\* the catalog fetch fails: a fatal exit outside the five kinds
C8_WitnessCatalogFetch == pc = "exited" /\ exitCode = 1 /\ CatalogFetchError

----------------------------------------------------------------------------
(* C9 *)

\* C9: the catalog is fetched at most once, before any query, and every query
\* carries the key that catalog gives to MetricName.
C9_CatalogOnce ==
    /\ Cardinality(CallsOf("CounterInfoByName")) <= 1
    /\ \A q \in CallsOf("Query") :
          /\ \E c \in CallsOf("CounterInfoByName") : c < q /\ calls[c].err = ""
          /\ MetricName \in DOMAIN counterInfo
          /\ calls[q].query.counterId = counterInfo[MetricName]
    /\ \A p, q \in CallsOf("Query") : calls[p].query.counterId = calls[q].query.counterId

\* two queries after one catalog fetch, in a catalog of two counters
C9_Witness ==
    /\ Cardinality(CallsOf("Query")) = 2
    /\ Cardinality(CallsOf("CounterInfoByName")) = 1
    /\ Cardinality(DOMAIN counterInfo) = 2

----------------------------------------------------------------------------
(* C10 *)

StepRank(op) ==
    CASE op = "NewClient" -> 1
      [] op = "CreateContainerView" -> 2
      [] op = "Retrieve" -> 3
      [] op = "Destroy" -> 4
      [] op = "CounterInfoByName" -> 5
      [] op = "Query" -> 6

\* C10: no retry, strict sequencing.  The queries made so far are those of the
\* first idx vms, one each and in inventory order, failed or not, each for one
\* entity and the one counter with interval 20 and one sample; the calls
\* follow the order session, inventory, catalog, queries, no call but Query is
\* made twice, and a failed session, inventory or catalog call is the last
\* call; a run that ends normally has queried every vm.
C10_NoRetrySequential ==
    /\ Len(resps) <= Len(vms)
    /\ Queries = [i \in 1..Len(resps) |->
                    [op |-> "Query",
                     err |-> IF resps[i].ok THEN "" ELSE "error",
                     query |-> [entity |-> vms[i], counterId |-> counter,
                                intervalId |-> 20, maxSample |-> 1]]]
    /\ \A i, j \in 1..Len(calls) :
          i < j => \/ StepRank(calls[i].op) < StepRank(calls[j].op)
                   \/ calls[i].op = "Query" /\ calls[j].op = "Query"
    /\ \A i \in 1..Len(calls) :
          calls[i].err # "" /\ calls[i].op \notin {"Query", "Destroy"} => i = Len(calls)
    /\ pc = "done" => Len(Queries) = Len(vms)

\* both vms queried once each, the first query having failed
C10_Witness ==
    /\ pc = "done"
    /\ Len(vms) = 2
    /\ Len(Queries) = 2
    /\ Queries[1].err = "error"
    /\ Queries[2].err = ""

====
